---- MODULE Spec2Model ----
(***************************************************************************)
(* Model of the presentation driver of welcome.py: the raw-mode session    *)
(* tui_gui, the navigation loop drive_slides and the clean_slate wrapper.  *)
(*                                                                         *)
(* The program is single-threaded and blocks only in stage.read_raw(1), so *)
(* its steps are: Startup (everything up to the first blocking read) and   *)
(* one step per byte read (everything up to the next read, or up to the    *)
(* end of the with-block including the finally clause of tui_gui).         *)
(*                                                                         *)
(* A slide is a generator function.  It is modelled by the number of       *)
(* yield statements it executes (slides[i]) and by whether the code after  *)
(* its last yield returns or raises an error (raises[i]).                  *)
(*                                                                         *)
(* Spec: slides that return, a terminal, the clock at countdown_seconds.   *)
(* SpecErr: slide code may raise.  SpecTty: stdin may not be a terminal.   *)
(* SpecClock: any reading of the clock and any terminal size.              *)
(***************************************************************************)
EXTENDS Integers, Sequences, FiniteSets, TLC

\* ------------------------------------------------------------------ bounds
MaxSlides == 3
MaxSteps == 2
ClockSpan == 1
ClockMaxSlides == 1

\* --------------------------------------------------------------- constants
KEY_NEXT == "n"
KEY_PREV == "N"
KEY_CTRL_C == "ctrl_c"
\* bytes that are none of the three keys; "" is the empty read at end of input
OtherBytes == {"x", ""}
None == "None"

VARIABLES
    slides,       \* parameter: slides[i+1] = number of yields of slide i
    raises,       \* parameter: raises[i+1] = the code after the last yield raises
    pc,           \* "init" (not started), "read" (blocked in read_raw), "done"
    slide_index,  \* local of drive_slides
    slide_run,    \* local of drive_slides: None or a reference to gen
    slide_start,  \* local of drive_slides
    input_byte,   \* local of drive_slides: the byte most recently read
    gen,          \* the generator object most recently created
    advances,     \* number of next() calls KEY_NEXT applied to gen
    term,         \* terminal: raw input mode, alternate screen, hidden cursor
    canvas,       \* overlay window: "none", "live" or "destroyed"
    exc,          \* exception that left drive_slides, or "none"
    prev,         \* history: the navigation state when input_byte was read
    out,          \* output events of the most recent step, in order
    stage,        \* parameter: the terminal size tui_gui captures at line 78
    tty_ok,       \* parameter: stdin is a terminal, so tcgetattr succeeds
    clock,        \* parameter: the seconds_remaining values line 100 may compute
    writes,       \* the write_at calls of the most recent step, in order
    label_shown   \* history: the label was written after the latest clear

vars == <<slides, raises, pc, slide_index, slide_run, slide_start, input_byte,
          gen, advances, term, canvas, exc, prev, out, stage, tty_ok, clock,
          writes,
          label_shown>>

nav == <<slide_index, slide_run, slide_start, gen>>

NavState == [slide_index |-> slide_index, slide_run |-> slide_run,
             slide_start |-> slide_start, gen |-> gen]

slide_count == Len(slides)

Has(ev, s) == \E k \in 1..Len(s) : s[k] = ev
Count(ev, s) == Cardinality({k \in 1..Len(s) : s[k] = ev})

\* ------------------------------------------------------------- generators
\* variant: a new generator that starts after its first yield
NewGenPastFirst(i) == [slide |-> i, pos |-> 1, done |-> FALSE]

\* slides[i](stage): a generator object that has not started running
NewGen(i) == [slide |-> i, pos |-> 0, done |-> FALSE]

\* next(g): run g up to its next yield.  pos counts the yields reached.
GenNext(g) ==
    IF g.done
    THEN [gen |-> g, result |-> "StopIteration"]
    ELSE IF g.pos < slides[g.slide + 1]
    THEN [gen |-> [g EXCEPT !.pos = g.pos + 1], result |-> "yielded"]
    ELSE [gen |-> [g EXCEPT !.done = TRUE],
          result |-> IF raises[g.slide + 1] THEN "Error" ELSE "StopIteration"]

\* variant: the terminal is cleared after the painter has started
clean_slate_late_clear ==
    <<"canvas_delete", "canvas_update", "slide_body", "stage_clear">>

\* clean_slate: what the wrapper does before the painter's first instruction
clean_slate == <<"canvas_delete", "canvas_update", "stage_clear", "slide_body">>

\* variant: the label is not written
show_nothing == <<>>

\* show_remaining_time: one write_at of the countdown label
show_remaining_time == <<"countdown">>

\* ------------------------------------------------- show_remaining_time
\* line 3: the terminal the script is written for, and a larger one
TTY_SIZE == [columns |-> 62, lines |-> 18]
TerminalSizes == {TTY_SIZE, [columns |-> 80, lines |-> 24]}

\* line 500: countdown_seconds
COUNTDOWN_SECONDS == 300

\* seconds_remaining values read at line 100: ClockSpan around the colour
\* threshold, zero, 100 minutes and minus 10 minutes
ClockSamples ==
    UNION {(c - ClockSpan)..(c + ClockSpan) : c \in {-600, 0, 60, 6000}}

Digit == <<"0", "1", "2", "3", "4", "5", "6", "7", "8", "9">>

\* str(n) for n >= 0
RECURSIVE Digits(_)
Digits(n) ==
    IF n < 10 THEN <<Digit[n + 1]>>
    ELSE Digits(n \div 10) \o <<Digit[(n % 10) + 1]>>

\* f'{n:02d}': sign, then zeros up to width 2, then the digits
Format02d(n) ==
    LET sign == IF n < 0 THEN <<"-">> ELSE <<>>
        ds == Digits(IF n < 0 THEN -n ELSE n)
        pad == IF Len(sign) + Len(ds) < 2 THEN <<"0">> ELSE <<>>
    IN sign \o pad \o ds

\* lines 101-102: divmod floors, as \div and % do for a positive divisor
LabelText(r) ==
    <<" ">> \o Format02d(r \div 60) \o <<":">> \o Format02d(r % 60) \o <<" ">>

\* variant: the label starts one column further left
LabelColumnLeft(columns, text) == columns - Len(text)

\* line 103
LabelColumn(columns, text) == columns - Len(text) + 1

FG_NORMAL == 250
FG_WARN == 231
BG_WARN == 196
\* bg=None: write_at emits no background code for a false value (line 67)
BG_NONE == 0
WARN_SECONDS == 60

\* variant: the warning colours start below the threshold
ColourSchemeBelow(r) ==
    IF r >= WARN_SECONDS THEN [fg |-> FG_NORMAL, bg |-> BG_NONE]
    ELSE [fg |-> FG_WARN, bg |-> BG_WARN]

\* line 105
ColourScheme(r) ==
    IF r > WARN_SECONDS THEN [fg |-> FG_NORMAL, bg |-> BG_NONE]
    ELSE [fg |-> FG_WARN, bg |-> BG_WARN]

\* lines 100-106: the write_at call made when seconds_remaining is r
WriteAt(r) ==
    [col |-> LabelColumn(stage.columns, LabelText(r)),
     line |-> stage.lines,
     text |-> LabelText(r),
     fg |-> ColourScheme(r).fg,
     bg |-> ColourScheme(r).bg,
     seconds_remaining |-> r]

\* the label is on screen after events evs, given it was (shown) before them
LabelAfter(evs, shown) ==
    LET clears == {k \in 1..Len(evs) : evs[k] \in {"stage_clear", "screen_clear"}}
        shows == {k \in 1..Len(evs) : evs[k] = "countdown"}
    IN IF clears = {} THEN shown \/ shows # {}
       ELSE \E k \in shows : \A c \in clears : c < k

\* every show_remaining_time call of the step reads the clock and writes the
\* label; a second call in the same step reads the same or the next second
Countdown ==
    /\ CASE Count("countdown", out') = 0 -> writes' = <<>>
         [] Count("countdown", out') = 1 ->
              \E r1 \in clock : writes' = <<WriteAt(r1)>>
         [] OTHER ->
              \E r1 \in clock : \E r2 \in {r1, r1 - 1} :
                 writes' = <<WriteAt(r1), WriteAt(r2)>>
    /\ label_shown' = LabelAfter(out', label_shown)

\* ---------------------------------------------------------------- tui_gui
TermCooked == [raw |-> FALSE, alt |-> FALSE, cursor_hidden |-> FALSE]
TERM_SETUP == <<"cursor_hide", "screen_alt", "screen_clear", "cursor_top_left">>
TERM_RESET == <<"screen_regular", "cursor_show">>

\* variant: raw mode is set before the terminal setup sequence is written
tui_gui_enter_raw_first ==
    <<"create_canvas", "tcgetattr", "setraw">> \o TERM_SETUP

\* lines 72-83: the part of tui_gui before its yield
tui_gui_enter == <<"create_canvas", "tcgetattr">> \o TERM_SETUP \o <<"setraw">>
TermEntered == [raw |-> TRUE, alt |-> TRUE, cursor_hidden |-> TRUE]

\* lines 85-88: the finally clause of tui_gui
tui_gui_exit == <<"tcsetattr">> \o TERM_RESET \o <<"canvas_destroy">>

\* ------------------------------------------------------------ drive_slides
\* Control goes back to the blocking read of line 114.
Continue(idx, run, g, start, adv, evs) ==
    /\ pc' = "read"
    /\ slide_index' = idx
    /\ slide_run' = run
    /\ gen' = g
    /\ slide_start' = start
    /\ advances' = adv
    /\ term' = TermEntered
    /\ canvas' = "live"
    /\ exc' = "none"
    /\ out' = evs

\* variant: tui_gui without try/finally, its exit code runs on normal exit only
LeaveNoFinally(e, idx, run, g, evs) ==
    /\ pc' = "done"
    /\ slide_index' = idx
    /\ slide_run' = run
    /\ gen' = g
    /\ UNCHANGED <<slide_start, advances>>
    /\ term' = IF e = "none" THEN TermCooked ELSE TermEntered
    /\ canvas' = IF e = "none" THEN "destroyed" ELSE "live"
    /\ exc' = e
    /\ out' = IF e = "none" THEN evs \o tui_gui_exit ELSE evs

\* Control leaves the with-block, normally (e = "none") or with exception e
\* thrown into tui_gui at its yield: the finally clause runs, e propagates.
Leave(e, idx, run, g, evs) ==
    /\ pc' = "done"
    /\ slide_index' = idx
    /\ slide_run' = run
    /\ gen' = g
    /\ UNCHANGED <<slide_start, advances>>
    /\ term' = TermCooked
    /\ canvas' = "destroyed"
    /\ exc' = e
    /\ out' = evs \o tui_gui_exit

\* variant: the label is not written again after the slide is instantiated
InstantiateNoRefresh(idx, evs) ==
    LET r == GenNext(NewGen(idx)) IN
    IF r.result = "yielded"
    THEN Continue(idx, "run", r.gen, TRUE, 0, evs \o clean_slate)
    ELSE Leave(r.result, idx, "run", r.gen, evs \o clean_slate)

\* next(slide_run := slides[idx](stage)); slide_start = True;
\* show_remaining_time(stage)          (lines 111-113 and 132-134)
Instantiate(idx, evs) ==
    LET r == GenNext(NewGen(idx)) IN
    IF r.result = "yielded"
    THEN Continue(idx, "run", r.gen, TRUE, 0,
                  evs \o clean_slate \o show_remaining_time)
    ELSE Leave(r.result, idx, "run", r.gen, evs \o clean_slate)

\* line 80: tcgetattr raises before the try block of tui_gui is entered
SetupFails ==
    /\ pc' = "done"
    /\ UNCHANGED <<slide_index, slide_run, slide_start, gen, advances, term>>
    /\ canvas' = "live"
    /\ exc' = "Error"
    /\ out' = <<"create_canvas", "tcgetattr">>

\* lines 108-113
Startup ==
    /\ pc = "init"
    /\ UNCHANGED <<slides, raises, input_byte, prev, stage, tty_ok, clock>>
    /\ IF tty_ok THEN Instantiate(0, tui_gui_enter) ELSE SetupFails
    /\ Countdown

\* variant: StopIteration is swallowed without clearing slide_run
AdvanceKeepsRun(evs) ==
    LET r == GenNext(gen) IN
    CASE r.result = "yielded" ->
           Continue(slide_index, slide_run, r.gen, FALSE, advances + 1,
                    evs \o <<"slide_step">>)
      [] r.result = "StopIteration" ->
           Continue(slide_index, slide_run, r.gen, slide_start, advances + 1,
                    evs \o <<"slide_step">>)
      [] OTHER ->
           Leave(r.result, slide_index, slide_run, r.gen,
                 evs \o <<"slide_step">>)

\* lines 118-123: KEY_NEXT while slide_run is set
Advance(evs) ==
    LET r == GenNext(gen) IN
    CASE r.result = "yielded" ->
           Continue(slide_index, slide_run, r.gen, FALSE, advances + 1,
                    evs \o <<"slide_step">>)
      [] r.result = "StopIteration" ->
           Continue(slide_index, None, r.gen, slide_start, advances + 1,
                    evs \o <<"slide_step">>)
      [] OTHER ->
           Leave(r.result, slide_index, slide_run, r.gen,
                 evs \o <<"slide_step">>)

\* variant: KEY_PREV always asks for the previous slide
PrevDeltaAlwaysBack(start) == -1

\* variant: KEY_PREV at the first step goes back two slides
PrevDeltaTwoBack(start) == IF start THEN -2 ELSE 0

\* line 127
PrevDelta(start) == IF start THEN -1 ELSE 0

\* line 130
InRange(i) == 0 <= i /\ i < slide_count

\* variant: an out-of-range index is clamped instead of ignored
ChangeSlideClamped(delta, evs) ==
    IF InRange(slide_index + delta)
    THEN Instantiate(slide_index + delta, evs)
    ELSE Instantiate(slide_index, evs)

\* lines 130-134
ChangeSlide(delta, evs) ==
    IF InRange(slide_index + delta)
    THEN Instantiate(slide_index + delta, evs)
    ELSE Continue(slide_index, slide_run, gen, slide_start, advances, evs)

\* variant: the loop never ends
LoopTestForever(b) == TRUE

\* line 114: the while condition
LoopTest(b) == b # KEY_CTRL_C

\* variant: KEY_NEXT resumes whether or not slide_run is set
ResumeTestAnyRun(b) == b = KEY_NEXT

\* line 117
ResumeTest(b) == b = KEY_NEXT /\ slide_run # None

\* variant: every remaining byte is taken for KEY_PREV
PrevTestElse(b) == TRUE

\* line 126
PrevTest(b) == b = KEY_PREV

\* lines 114-134: byte b has been read and is handled
Handle(b) ==
    /\ input_byte' = b
    /\ prev' = NavState
    /\ UNCHANGED <<slides, raises, stage, tty_ok, clock>>
    /\ IF ~LoopTest(b)
       THEN Leave("none", slide_index, slide_run, gen, <<>>)
       ELSE IF ResumeTest(b)
       THEN Advance(show_remaining_time)
       ELSE IF b = KEY_NEXT
       THEN ChangeSlide(1, show_remaining_time)
       ELSE IF PrevTest(b)
       THEN ChangeSlide(PrevDelta(slide_start), show_remaining_time)
       ELSE Continue(slide_index, slide_run, gen, slide_start, advances,
                     show_remaining_time)
    /\ Countdown

\* line 114: read_raw(1) returns, for each kind of byte
KeyNext ==
    /\ pc = "read"
    /\ Handle(KEY_NEXT)

KeyPrev ==
    /\ pc = "read"
    /\ Handle(KEY_PREV)

KeyCtrlC ==
    /\ pc = "read"
    /\ Handle(KEY_CTRL_C)

KeyOther ==
    /\ pc = "read"
    /\ \E b \in OtherBytes : Handle(b)

\* --------------------------------------------------------- specifications
SlideLists == UNION {[1..n -> 0..MaxSteps] : n \in 1..MaxSlides}

InitCommon ==
    /\ slides \in SlideLists
    /\ pc = "init"
    /\ slide_index = 0
    /\ slide_run = None
    /\ slide_start = FALSE
    /\ input_byte = ""
    /\ gen = NewGen(0)
    /\ advances = 0
    /\ term = TermCooked
    /\ canvas = "none"
    /\ exc = "none"
    /\ prev = NavState
    /\ out = <<>>
    /\ writes = <<>>
    /\ label_shown = FALSE

\* every slide's painter returns normally
Init ==
    /\ InitCommon
    /\ raises = [i \in 1..Len(slides) |-> FALSE]
    /\ tty_ok = TRUE
    /\ stage = TTY_SIZE
    /\ clock = {COUNTDOWN_SECONDS}

\* a slide's painter may raise an error instead of returning
InitErr ==
    /\ InitCommon
    /\ raises \in [1..Len(slides) -> BOOLEAN]
    /\ tty_ok = TRUE
    /\ stage = TTY_SIZE
    /\ clock = {COUNTDOWN_SECONDS}

\* as InitErr, and stdin may not be a terminal
InitTty ==
    /\ InitCommon
    /\ raises \in [1..Len(slides) -> BOOLEAN]
    /\ tty_ok \in BOOLEAN
    /\ stage = TTY_SIZE
    /\ clock = {COUNTDOWN_SECONDS}

\* as Init for at most ClockMaxSlides slides, with any terminal size and
\* any clock reading
InitClock ==
    /\ InitCommon
    /\ Len(slides) <= ClockMaxSlides
    /\ raises = [i \in 1..Len(slides) |-> FALSE]
    /\ tty_ok = TRUE
    /\ stage \in TerminalSizes
    /\ clock = ClockSamples \cup {COUNTDOWN_SECONDS}

Next == Startup \/ KeyNext \/ KeyPrev \/ KeyCtrlC \/ KeyOther

Spec == Init /\ [][Next]_vars
SpecErr == InitErr /\ [][Next]_vars
SpecTty == InitTty /\ [][Next]_vars
SpecClock == InitClock /\ [][Next]_vars

\* ------------------------------------------------------------- properties
FirstStepOf(i) == [slide |-> i, pos |-> 1, done |-> FALSE]
LastSlide == slide_count - 1

C2_ZeroYieldSlideIsExhausted ==
    (slides = <<2, 0, 1>> /\ slide_index = 1)
      => (pc = "read" /\ slide_run = None /\ exc = "none")

\* C3 (as stated): a KEY_NEXT byte resumes the run once while slide_run is
\* set (one yield further, or slide_run becomes None on the same slide);
\* with slide_run None it moves to the first yield of the next slide, or
\* changes nothing on the last slide.
C3_AdvanceDrivesThenMoves ==
    [][(pc = "read" /\ input_byte' = KEY_NEXT)
         => IF slide_run # None
            THEN /\ pc' = "read"
                 /\ slide_index' = slide_index
                 /\ \/ /\ gen.pos < slides[slide_index + 1]
                       /\ gen' = [gen EXCEPT !.pos = gen.pos + 1]
                       /\ slide_run' = slide_run
                    \/ /\ gen.pos = slides[slide_index + 1]
                       /\ slide_run' = None
            ELSE IF slide_index < LastSlide
            THEN /\ pc' = "read"
                 /\ slide_index' = slide_index + 1
                 /\ slide_run' # None
                 /\ gen' = FirstStepOf(slide_index + 1)
                 /\ slide_start'
            ELSE pc' = "read" /\ UNCHANGED nav]_vars

\* C4: a KEY_PREV byte read while slide_start is true and slide_index > 0
\* moves to slide_index - 1 and starts a new run of that slide at its first
\* yield with slide_start true.
C4_RewindAtFirstStep ==
    [][(pc = "read" /\ slide_start /\ slide_index > 0 /\ input_byte' = KEY_PREV)
         => /\ pc' = "read"
            /\ slide_index' = slide_index - 1
            /\ slide_run' # None
            /\ gen' = FirstStepOf(slide_index - 1)
            /\ slide_start'
            /\ Count("slide_body", out') = 1]_vars

C4_Witness ==
    /\ pc = "read"
    /\ input_byte = KEY_PREV
    /\ prev.slide_start
    /\ prev.slide_index = 2
    /\ slide_index = 1
    /\ slides[2] = 2
    /\ gen = FirstStepOf(1)
    /\ slide_start

\* C5: the KEY_CTRL_C byte ends the loop in every navigation state; nothing
\* is drawn, resumed or instantiated for it and the navigation state stays.
C5_QuitAlwaysTerminates ==
    [][(pc = "read" /\ input_byte' = KEY_CTRL_C)
         => /\ pc' = "done"
            /\ exc' = "none"
            /\ UNCHANGED nav
            /\ out' = tui_gui_exit]_vars

C5_Witness ==
    /\ pc = "done"
    /\ input_byte = KEY_CTRL_C
    /\ exc = "none"
    /\ ~prev.slide_start
    /\ prev.slide_run # None
    /\ prev.slide_index > 0

C7_ExitRunsOnException ==
    exc # "none"
      => /\ pc = "done"
         /\ term = TermCooked
         /\ canvas = "destroyed"
         /\ Len(out) >= Len(tui_gui_exit)
         /\ SubSeq(out, Len(out) - Len(tui_gui_exit) + 1, Len(out)) = tui_gui_exit

C7_Witness ==
    /\ exc = "Error"
    /\ input_byte = KEY_NEXT
    /\ prev.slide_run # None
    /\ ~prev.slide_start
    /\ term = TermCooked
    /\ canvas = "destroyed"

\* C8 (as stated): slide_start is true only if KEY_NEXT has applied no
\* next() to the current run since the slide was instantiated.
C8_StartMeansNoAdvance ==
    (pc # "init" /\ slide_start) => advances = 0

\* C9: while the driver waits for input, slide_run is None if and only if
\* the run of the current slide has signalled completion.
C9_RunAbsentIffCompleted ==
    pc = "read"
      => /\ gen.slide = slide_index
         /\ (slide_run = None) <=> gen.done

C9_Witness ==
    /\ pc = "read"
    /\ slide_run = None
    /\ gen.done
    /\ gen.pos = 2
    /\ input_byte = KEY_NEXT

\* C10: the countdown is drawn once at startup, after slide 0 is
\* instantiated and before the first read; for every byte other than
\* KEY_CTRL_C it is drawn first, before a run is resumed or a slide changed.
C10_CountdownBeforeEffect ==
    [][/\ (pc = "init" /\ pc' = "read")
            => out' = tui_gui_enter \o clean_slate \o <<"countdown">>
       /\ (pc = "read" /\ input_byte' # KEY_CTRL_C)
            => (out' # <<>> /\ Head(out') = "countdown")]_vars

C10_Witness ==
    /\ pc = "read"
    /\ input_byte = KEY_NEXT
    /\ out = <<"countdown", "slide_step">>

\* C11: every label is written in the warning colours (fg 231 on bg 196)
\* exactly when seconds_remaining <= 60 and in the normal colours (fg 250,
\* no background) exactly when seconds_remaining > 60, negative values
\* included.
C11_ColoursSwitchAt60 ==
    \A k \in 1..Len(writes) :
        /\ (writes[k].fg = 231 /\ writes[k].bg = 196)
             <=> writes[k].seconds_remaining <= 60
        /\ (writes[k].fg = 250 /\ writes[k].bg = BG_NONE)
             <=> writes[k].seconds_remaining > 60

C11_Witness ==
    /\ Len(writes) = 2
    /\ writes[1].seconds_remaining = 61
    /\ writes[1].fg = 250
    /\ writes[2].seconds_remaining = 60
    /\ writes[2].fg = 231
    /\ writes[2].bg = 196

\* C12: every label is written on the last row, starting at column
\* columns - len(text) + 1, so that its last character is in the last
\* column, whatever the length of the text.
C12_LabelEndsAtLastColumn ==
    \A k \in 1..Len(writes) :
        /\ writes[k].line = stage.lines
        /\ writes[k].col = stage.columns - Len(writes[k].text) + 1
        /\ writes[k].col + Len(writes[k].text) - 1 = stage.columns

C12_Witness ==
    /\ Len(writes) = 1
    /\ writes[1].seconds_remaining < 0
    /\ writes[1].text = <<" ", "-", "1", "1", ":", "5", "9", " ">>
    /\ writes[1].col = stage.columns - 7

\* C13 (as stated): on every exit path of tui_gui after the overlay window
\* was created, the window has been destroyed, exactly once, when the
\* program ends.
C13_StageDestroyedOnEveryExit ==
    (pc = "done" /\ canvas # "none")
      => (canvas = "destroyed" /\ Count("canvas_destroy", out) = 1)

\* C14 (as stated): the loop ends only by reading KEY_CTRL_C; after every
\* other byte, whatever the navigation state and the clock reading, the
\* driver is back at the blocking read.
C14_OnlyQuitEndsLoop ==
    [][(pc = "read" /\ input_byte' # KEY_CTRL_C) => pc' = "read"]_vars

\* C15: slide_index is always within 0 .. slide_count - 1 and changes by at
\* most 1 in the handling of one byte.
C15_IndexInRangeStepOne ==
    /\ [](0 <= slide_index /\ slide_index <= slide_count - 1)
    /\ [][slide_index' - slide_index \in {-1, 0, 1}]_vars

C15_Witness ==
    /\ pc = "read"
    /\ input_byte = KEY_NEXT
    /\ slide_count = 3
    /\ prev.slide_index = 1
    /\ slide_index = 2

\* C16: a run that has signalled completion is never resumed again: while
\* the latest generator is finished, no byte makes the driver call next()
\* on it.
C16_CompletedRunNeverResumed ==
    [][(pc = "read" /\ gen.done) => ~Has("slide_step", out')]_vars

C16_Witness ==
    /\ pc = "read"
    /\ input_byte = KEY_NEXT
    /\ prev.gen.done
    /\ prev.slide_run = None
    /\ slide_index = prev.slide_index + 1
    /\ ~Has("slide_step", out)
    /\ ~gen.done

\* the step about to be taken instantiates a slide: startup, a slide change
\* or a restart of the current slide
Instantiates ==
    \/ pc = "init"
    \/ /\ pc = "read"
       /\ \/ /\ input_byte' = KEY_NEXT
             /\ slide_run = None
             /\ slide_index < LastSlide
          \/ /\ input_byte' = KEY_PREV
             /\ (~slide_start \/ slide_index > 0)

\* C17: every step that instantiates a slide (startup, a slide change, a
\* restart) deletes the overlay objects, redraws the overlay and clears the
\* terminal, in this order and once each, before the slide's own code runs.
C17_CleanSlateBeforeSlide ==
    [][Instantiates
         => /\ \E k \in 1..Len(out') :
                 /\ k + 3 <= Len(out')
                 /\ SubSeq(out', k, k + 3) =
                      <<"canvas_delete", "canvas_update", "stage_clear",
                        "slide_body">>
            /\ \A ev \in {"canvas_delete", "canvas_update", "stage_clear",
                          "slide_body"} : Count(ev, out') = 1]_vars

C17_Witness ==
    /\ pc = "read"
    /\ input_byte = KEY_PREV
    /\ slide_index = prev.slide_index - 1
    /\ out = <<"countdown", "canvas_delete", "canvas_update", "stage_clear",
               "slide_body", "countdown">>

\* C18: a byte other than KEY_NEXT, KEY_PREV and KEY_CTRL_C, the empty read
\* included, leaves slide_index, slide_run and slide_start as they are and
\* instantiates or resumes no slide: it only redraws the countdown.
C18_OtherByteOnlyRefreshes ==
    [][(pc = "read" /\ input_byte' \notin {KEY_NEXT, KEY_PREV, KEY_CTRL_C})
         => (pc' = "read" /\ UNCHANGED nav /\ out' = <<"countdown">>)]_vars

C18_Witness ==
    /\ pc = "read"
    /\ input_byte = ""
    /\ ~prev.slide_start
    /\ prev.slide_run # None
    /\ prev.slide_index > 0
    /\ NavState = prev
    /\ out = <<"countdown">>

\* C19 (as stated): on entering the session the settings are captured, raw
\* mode is set, the alternate screen is entered, the cursor hidden, the
\* screen cleared, the cursor homed and then the overlay window created; on
\* exit the settings are restored, the alternate screen left, the cursor
\* shown and the window destroyed.
C19_SessionOrderAsStated ==
    [][/\ pc = "init"
            => (Len(out') >= 7 /\ SubSeq(out', 1, 7) =
                  <<"tcgetattr", "setraw", "screen_alt", "cursor_hide",
                    "screen_clear", "cursor_top_left", "create_canvas">>)
       /\ (pc = "read" /\ pc' = "done")
            => (Len(out') >= 4 /\ SubSeq(out', Len(out') - 3, Len(out')) =
                  <<"tcsetattr", "screen_regular", "cursor_show",
                    "canvas_destroy">>)]_vars

\* C19 (amended): on entering the session the overlay window is created,
\* then the settings are captured, the cursor hidden, the alternate screen
\* entered, the screen cleared, the cursor homed and raw mode set; on exit
\* the settings are restored, the alternate screen left, the cursor shown
\* and the window destroyed.
C19_SessionOrder ==
    [][/\ pc = "init"
            => (Len(out') >= 7 /\ SubSeq(out', 1, 7) =
                  <<"create_canvas", "tcgetattr", "cursor_hide", "screen_alt",
                    "screen_clear", "cursor_top_left", "setraw">>)
       /\ (pc = "read" /\ pc' = "done")
            => (Len(out') >= 4 /\ SubSeq(out', Len(out') - 3, Len(out')) =
                  <<"tcsetattr", "screen_regular", "cursor_show",
                    "canvas_destroy">>)]_vars

C19_Witness ==
    /\ pc = "done"
    /\ input_byte = ""
    /\ out = <<"create_canvas", "tcgetattr", "cursor_hide", "screen_alt",
               "screen_clear", "cursor_top_left", "setraw",
               "canvas_delete", "canvas_update", "stage_clear", "slide_body",
               "tcsetattr", "screen_regular", "cursor_show", "canvas_destroy">>

\* C20: whenever the driver is blocked in the read, the countdown label has
\* been written after the most recent clear of the terminal.
C20_LabelShownWhileReading ==
    pc = "read" => label_shown

C20_Witness ==
    /\ pc = "read"
    /\ input_byte = KEY_PREV
    /\ ~prev.slide_start
    /\ Has("stage_clear", out)
    /\ out[Len(out)] = "countdown"
    /\ Len(writes) = 2
    /\ label_shown

====
